---- MODULE Spec2Model ----
(***************************************************************************)
(* Model of src/email_parser.py: the email-to-ticket pipeline of main().   *)
(*                                                                         *)
(* Text whose characters matter (message payloads, the drafted reply, what *)
(* the operator types) is a sequence of one-character strings.             *)
(* Text that is only compared or concatenated is a TLA+ string.            *)
(* A call that can raise returns a record whose field exc names the        *)
(* exception ("" when the call returned normally).                         *)
(***************************************************************************)
EXTENDS Integers, Sequences, FiniteSets, TLC

\* Largest number of unread message ids the mailbox reports in one run.
MaxMsgs == 2

(***************************************************************************)
(* Text helpers                                                            *)
(***************************************************************************)
\* The characters Python holds to be white space (str.isspace, which both
\* the \s of re and str.strip() use): space, tab, line feed, carriage
\* return and form feed, then vertical tab, the separators U+001C..U+001F
\* and the white space beyond ASCII.  A character that a string of this
\* module cannot hold is written <U+hhhh>.
Whitespace ==
    {" ", "\t", "\n", "\r", "\f",
     "<U+000B>", "<U+001C>", "<U+001D>", "<U+001E>", "<U+001F>",
     "<U+0085>", "<U+00A0>", "<U+1680>", "<U+2000>", "<U+2001>",
     "<U+2002>", "<U+2003>", "<U+2004>", "<U+2005>", "<U+2006>",
     "<U+2007>", "<U+2008>", "<U+2009>", "<U+200A>", "<U+2028>",
     "<U+2029>", "<U+202F>", "<U+205F>", "<U+3000>"}

\* An octet that is not valid UTF-8, as it appears inside a payload.
BadByte == "<0xFF>"

\* Markup tokens of an HTML payload.
Tags == {"<p>", "</p>", "<br>"}

RECURSIVE lstrip(_)
lstrip(s) ==
    IF s = <<>> THEN s
    ELSE IF Head(s) \in Whitespace THEN lstrip(Tail(s)) ELSE s

RECURSIVE rstrip(_)
rstrip(s) ==
    IF s = <<>> THEN s
    ELSE IF s[Len(s)] \in Whitespace THEN rstrip(SubSeq(s, 1, Len(s) - 1)) ELSE s

\* str.strip()
strip(s) == rstrip(lstrip(s))

\* bytes.decode(errors="ignore"): invalid octets are dropped.
decode_ignore(b) == SelectSeq(b, LAMBDA c : c # BadByte)

\* BeautifulSoup(raw_html, "html.parser").get_text(): markup is dropped.
get_text(raw_html) == SelectSeq(raw_html, LAMBDA c : c \notin Tags)

\* re.sub(r'\s+', ' ', text)
RECURSIVE collapse_ws(_)
collapse_ws(s) ==
    IF s = <<>> THEN <<>>
    ELSE IF Head(s) \in Whitespace
         THEN <<" ">> \o collapse_ws(lstrip(Tail(s)))
         ELSE <<Head(s)>> \o collapse_ws(Tail(s))

clean_html(raw_html) == strip(collapse_ws(get_text(raw_html)))

\* The characters U+0020..U+007E, in order (the grave accent, which a
\* string of this module cannot hold, is written <U+0060>).
Printable ==
    <<" ", "!", "\"", "#", "$", "%", "&", "'", "(", ")", "*", "+",
      ",", "-", ".", "/", "0", "1", "2", "3", "4", "5", "6", "7",
      "8", "9", ":", ";", "<", "=", ">", "?", "@", "A", "B", "C",
      "D", "E", "F", "G", "H", "I", "J", "K", "L", "M", "N", "O",
      "P", "Q", "R", "S", "T", "U", "V", "W", "X", "Y", "Z", "[",
      "\\", "]", "^", "_", "<U+0060>", "a", "b", "c", "d", "e", "f", "g",
      "h", "i", "j", "k", "l", "m", "n", "o", "p", "q", "r", "s",
      "t", "u", "v", "w", "x", "y", "z", "{", "|", "}", "~">>

HexDigits == <<"0", "1", "2", "3", "4", "5", "6", "7",
               "8", "9", "A", "B", "C", "D", "E", "F">>

RECURSIVE Hex(_, _)
\* The number n in hexadecimal, with at least width digits.
Hex(n, width) ==
    IF n < 16 /\ width <= 1 THEN HexDigits[n + 1]
    ELSE Hex(n \div 16, width - 1) \o HexDigits[(n % 16) + 1]

\* The character of code point n as this module writes it.
Char(n) ==
    IF n \in 32..126 THEN Printable[n - 31]
    ELSE IF n = 9 THEN "\t"
    ELSE IF n = 10 THEN "\n"
    ELSE IF n = 12 THEN "\f"
    ELSE IF n = 13 THEN "\r"
    ELSE "<U+" \o Hex(n, 4) \o ">"

\* The lowercase mapping of str.lower() (Unicode 14.0.0, the database of the
\* interpreter): <<first, last, step, delta>> maps every code point n of
\* first, first + step, ..., last to n + delta.
LowerRuns ==
    <<<<65, 90, 1, 32>>, <<192, 214, 1, 32>>, <<216, 222, 1, 32>>, <<256, 302, 2, 1>>,
      <<306, 310, 2, 1>>, <<313, 327, 2, 1>>, <<330, 374, 2, 1>>, <<376, 376, 1, -121>>,
      <<377, 381, 2, 1>>, <<385, 385, 1, 210>>, <<386, 388, 2, 1>>, <<390, 390, 1, 206>>,
      <<391, 391, 1, 1>>, <<393, 394, 1, 205>>, <<395, 395, 1, 1>>, <<398, 398, 1, 79>>,
      <<399, 399, 1, 202>>, <<400, 400, 1, 203>>, <<401, 401, 1, 1>>, <<403, 403, 1, 205>>,
      <<404, 404, 1, 207>>, <<406, 406, 1, 211>>, <<407, 407, 1, 209>>, <<408, 408, 1, 1>>,
      <<412, 412, 1, 211>>, <<413, 413, 1, 213>>, <<415, 415, 1, 214>>, <<416, 420, 2, 1>>,
      <<422, 422, 1, 218>>, <<423, 423, 1, 1>>, <<425, 425, 1, 218>>, <<428, 428, 1, 1>>,
      <<430, 430, 1, 218>>, <<431, 431, 1, 1>>, <<433, 434, 1, 217>>, <<435, 437, 2, 1>>,
      <<439, 439, 1, 219>>, <<440, 440, 1, 1>>, <<444, 444, 1, 1>>, <<452, 452, 1, 2>>,
      <<453, 453, 1, 1>>, <<455, 455, 1, 2>>, <<456, 456, 1, 1>>, <<458, 458, 1, 2>>,
      <<459, 475, 2, 1>>, <<478, 494, 2, 1>>, <<497, 497, 1, 2>>, <<498, 500, 2, 1>>,
      <<502, 502, 1, -97>>, <<503, 503, 1, -56>>, <<504, 542, 2, 1>>, <<544, 544, 1, -130>>,
      <<546, 562, 2, 1>>, <<570, 570, 1, 10795>>, <<571, 571, 1, 1>>, <<573, 573, 1, -163>>,
      <<574, 574, 1, 10792>>, <<577, 577, 1, 1>>, <<579, 579, 1, -195>>, <<580, 580, 1, 69>>,
      <<581, 581, 1, 71>>, <<582, 590, 2, 1>>, <<880, 882, 2, 1>>, <<886, 886, 1, 1>>,
      <<895, 895, 1, 116>>, <<902, 902, 1, 38>>, <<904, 906, 1, 37>>, <<908, 908, 1, 64>>,
      <<910, 911, 1, 63>>, <<913, 929, 1, 32>>, <<931, 939, 1, 32>>, <<975, 975, 1, 8>>,
      <<984, 1006, 2, 1>>, <<1012, 1012, 1, -60>>, <<1015, 1015, 1, 1>>, <<1017, 1017, 1, -7>>,
      <<1018, 1018, 1, 1>>, <<1021, 1023, 1, -130>>, <<1024, 1039, 1, 80>>, <<1040, 1071, 1, 32>>,
      <<1120, 1152, 2, 1>>, <<1162, 1214, 2, 1>>, <<1216, 1216, 1, 15>>, <<1217, 1229, 2, 1>>,
      <<1232, 1326, 2, 1>>, <<1329, 1366, 1, 48>>, <<4256, 4293, 1, 7264>>, <<4295, 4295, 1, 7264>>,
      <<4301, 4301, 1, 7264>>, <<5024, 5103, 1, 38864>>, <<5104, 5109, 1, 8>>, <<7312, 7354, 1, -3008>>,
      <<7357, 7359, 1, -3008>>, <<7680, 7828, 2, 1>>, <<7838, 7838, 1, -7615>>, <<7840, 7934, 2, 1>>,
      <<7944, 7951, 1, -8>>, <<7960, 7965, 1, -8>>, <<7976, 7983, 1, -8>>, <<7992, 7999, 1, -8>>,
      <<8008, 8013, 1, -8>>, <<8025, 8031, 2, -8>>, <<8040, 8047, 1, -8>>, <<8072, 8079, 1, -8>>,
      <<8088, 8095, 1, -8>>, <<8104, 8111, 1, -8>>, <<8120, 8121, 1, -8>>, <<8122, 8123, 1, -74>>,
      <<8124, 8124, 1, -9>>, <<8136, 8139, 1, -86>>, <<8140, 8140, 1, -9>>, <<8152, 8153, 1, -8>>,
      <<8154, 8155, 1, -100>>, <<8168, 8169, 1, -8>>, <<8170, 8171, 1, -112>>, <<8172, 8172, 1, -7>>,
      <<8184, 8185, 1, -128>>, <<8186, 8187, 1, -126>>, <<8188, 8188, 1, -9>>, <<8486, 8486, 1, -7517>>,
      <<8490, 8490, 1, -8383>>, <<8491, 8491, 1, -8262>>, <<8498, 8498, 1, 28>>, <<8544, 8559, 1, 16>>,
      <<8579, 8579, 1, 1>>, <<9398, 9423, 1, 26>>, <<11264, 11311, 1, 48>>, <<11360, 11360, 1, 1>>,
      <<11362, 11362, 1, -10743>>, <<11363, 11363, 1, -3814>>, <<11364, 11364, 1, -10727>>, <<11367, 11371, 2, 1>>,
      <<11373, 11373, 1, -10780>>, <<11374, 11374, 1, -10749>>, <<11375, 11375, 1, -10783>>, <<11376, 11376, 1, -10782>>,
      <<11378, 11378, 1, 1>>, <<11381, 11381, 1, 1>>, <<11390, 11391, 1, -10815>>, <<11392, 11490, 2, 1>>,
      <<11499, 11501, 2, 1>>, <<11506, 11506, 1, 1>>, <<42560, 42604, 2, 1>>, <<42624, 42650, 2, 1>>,
      <<42786, 42798, 2, 1>>, <<42802, 42862, 2, 1>>, <<42873, 42875, 2, 1>>, <<42877, 42877, 1, -35332>>,
      <<42878, 42886, 2, 1>>, <<42891, 42891, 1, 1>>, <<42893, 42893, 1, -42280>>, <<42896, 42898, 2, 1>>,
      <<42902, 42920, 2, 1>>, <<42922, 42922, 1, -42308>>, <<42923, 42923, 1, -42319>>, <<42924, 42924, 1, -42315>>,
      <<42925, 42925, 1, -42305>>, <<42926, 42926, 1, -42308>>, <<42928, 42928, 1, -42258>>, <<42929, 42929, 1, -42282>>,
      <<42930, 42930, 1, -42261>>, <<42931, 42931, 1, 928>>, <<42932, 42946, 2, 1>>, <<42948, 42948, 1, -48>>,
      <<42949, 42949, 1, -42307>>, <<42950, 42950, 1, -35384>>, <<42951, 42953, 2, 1>>, <<42960, 42960, 1, 1>>,
      <<42966, 42968, 2, 1>>, <<42997, 42997, 1, 1>>, <<65313, 65338, 1, 32>>, <<66560, 66599, 1, 40>>,
      <<66736, 66771, 1, 40>>, <<66928, 66938, 1, 39>>, <<66940, 66954, 1, 39>>, <<66956, 66962, 1, 39>>,
      <<66964, 66965, 1, 39>>, <<68736, 68786, 1, 64>>, <<71840, 71871, 1, 32>>, <<93760, 93791, 1, 32>>,
      <<125184, 125217, 1, 34>>>>

\* U+0130 is the one character whose lowercase has two characters.
LowerPairs ==
    UNION {{<<Char(n), <<Char(n + r[4])>>>> :
                n \in {m \in r[1]..r[2] : (m - r[1]) % r[3] = 0}} :
           r \in {LowerRuns[k] : k \in DOMAIN LowerRuns}}
      \cup {<<Char(304), <<"i", Char(775)>>>>}

UpperChars == {p[1] : p \in LowerPairs}

ToLower == [c \in UpperChars |-> (CHOOSE p \in LowerPairs : p[1] = c)[2]]

\* Code point ranges of the characters with the property Case_Ignorable.
CaseIgnorableRuns ==
    <<<<39, 39>>, <<46, 46>>, <<58, 58>>, <<94, 94>>, <<96, 96>>,
      <<168, 168>>, <<173, 173>>, <<175, 175>>, <<180, 180>>, <<183, 184>>,
      <<688, 879>>, <<884, 885>>, <<890, 890>>, <<900, 901>>, <<903, 903>>,
      <<1155, 1161>>, <<1369, 1369>>, <<1375, 1375>>, <<1425, 1469>>, <<1471, 1471>>,
      <<1473, 1474>>, <<1476, 1477>>, <<1479, 1479>>, <<1524, 1524>>, <<1536, 1541>>,
      <<1552, 1562>>, <<1564, 1564>>, <<1600, 1600>>, <<1611, 1631>>, <<1648, 1648>>,
      <<1750, 1757>>, <<1759, 1768>>, <<1770, 1773>>, <<1807, 1807>>, <<1809, 1809>>,
      <<1840, 1866>>, <<1958, 1968>>, <<2027, 2037>>, <<2042, 2042>>, <<2045, 2045>>,
      <<2070, 2093>>, <<2137, 2139>>, <<2184, 2184>>, <<2192, 2193>>, <<2200, 2207>>,
      <<2249, 2306>>, <<2362, 2362>>, <<2364, 2364>>, <<2369, 2376>>, <<2381, 2381>>,
      <<2385, 2391>>, <<2402, 2403>>, <<2417, 2417>>, <<2433, 2433>>, <<2492, 2492>>,
      <<2497, 2500>>, <<2509, 2509>>, <<2530, 2531>>, <<2558, 2558>>, <<2561, 2562>>,
      <<2620, 2620>>, <<2625, 2626>>, <<2631, 2632>>, <<2635, 2637>>, <<2641, 2641>>,
      <<2672, 2673>>, <<2677, 2677>>, <<2689, 2690>>, <<2748, 2748>>, <<2753, 2757>>,
      <<2759, 2760>>, <<2765, 2765>>, <<2786, 2787>>, <<2810, 2815>>, <<2817, 2817>>,
      <<2876, 2876>>, <<2879, 2879>>, <<2881, 2884>>, <<2893, 2893>>, <<2901, 2902>>,
      <<2914, 2915>>, <<2946, 2946>>, <<3008, 3008>>, <<3021, 3021>>, <<3072, 3072>>,
      <<3076, 3076>>, <<3132, 3132>>, <<3134, 3136>>, <<3142, 3144>>, <<3146, 3149>>,
      <<3157, 3158>>, <<3170, 3171>>, <<3201, 3201>>, <<3260, 3260>>, <<3263, 3263>>,
      <<3270, 3270>>, <<3276, 3277>>, <<3298, 3299>>, <<3328, 3329>>, <<3387, 3388>>,
      <<3393, 3396>>, <<3405, 3405>>, <<3426, 3427>>, <<3457, 3457>>, <<3530, 3530>>,
      <<3538, 3540>>, <<3542, 3542>>, <<3633, 3633>>, <<3636, 3642>>, <<3654, 3662>>,
      <<3761, 3761>>, <<3764, 3772>>, <<3782, 3782>>, <<3784, 3789>>, <<3864, 3865>>,
      <<3893, 3893>>, <<3895, 3895>>, <<3897, 3897>>, <<3953, 3966>>, <<3968, 3972>>,
      <<3974, 3975>>, <<3981, 3991>>, <<3993, 4028>>, <<4038, 4038>>, <<4141, 4144>>,
      <<4146, 4151>>, <<4153, 4154>>, <<4157, 4158>>, <<4184, 4185>>, <<4190, 4192>>,
      <<4209, 4212>>, <<4226, 4226>>, <<4229, 4230>>, <<4237, 4237>>, <<4253, 4253>>,
      <<4348, 4348>>, <<4957, 4959>>, <<5906, 5908>>, <<5938, 5939>>, <<5970, 5971>>,
      <<6002, 6003>>, <<6068, 6069>>, <<6071, 6077>>, <<6086, 6086>>, <<6089, 6099>>,
      <<6103, 6103>>, <<6109, 6109>>, <<6155, 6159>>, <<6211, 6211>>, <<6277, 6278>>,
      <<6313, 6313>>, <<6432, 6434>>, <<6439, 6440>>, <<6450, 6450>>, <<6457, 6459>>,
      <<6679, 6680>>, <<6683, 6683>>, <<6742, 6742>>, <<6744, 6750>>, <<6752, 6752>>,
      <<6754, 6754>>, <<6757, 6764>>, <<6771, 6780>>, <<6783, 6783>>, <<6823, 6823>>,
      <<6832, 6862>>, <<6912, 6915>>, <<6964, 6964>>, <<6966, 6970>>, <<6972, 6972>>,
      <<6978, 6978>>, <<7019, 7027>>, <<7040, 7041>>, <<7074, 7077>>, <<7080, 7081>>,
      <<7083, 7085>>, <<7142, 7142>>, <<7144, 7145>>, <<7149, 7149>>, <<7151, 7153>>,
      <<7212, 7219>>, <<7222, 7223>>, <<7288, 7293>>, <<7376, 7378>>, <<7380, 7392>>,
      <<7394, 7400>>, <<7405, 7405>>, <<7412, 7412>>, <<7416, 7417>>, <<7468, 7530>>,
      <<7544, 7544>>, <<7579, 7679>>, <<8125, 8125>>, <<8127, 8129>>, <<8141, 8143>>,
      <<8157, 8159>>, <<8173, 8175>>, <<8189, 8190>>, <<8203, 8207>>, <<8216, 8217>>,
      <<8228, 8228>>, <<8231, 8231>>, <<8234, 8238>>, <<8288, 8292>>, <<8294, 8303>>,
      <<8305, 8305>>, <<8319, 8319>>, <<8336, 8348>>, <<8400, 8432>>, <<11388, 11389>>,
      <<11503, 11505>>, <<11631, 11631>>, <<11647, 11647>>, <<11744, 11775>>, <<11823, 11823>>,
      <<12293, 12293>>, <<12330, 12333>>, <<12337, 12341>>, <<12347, 12347>>, <<12441, 12446>>,
      <<12540, 12542>>, <<40981, 40981>>, <<42232, 42237>>, <<42508, 42508>>, <<42607, 42610>>,
      <<42612, 42621>>, <<42623, 42623>>, <<42652, 42655>>, <<42736, 42737>>, <<42752, 42785>>,
      <<42864, 42864>>, <<42888, 42890>>, <<42994, 42996>>, <<43000, 43001>>, <<43010, 43010>>,
      <<43014, 43014>>, <<43019, 43019>>, <<43045, 43046>>, <<43052, 43052>>, <<43204, 43205>>,
      <<43232, 43249>>, <<43263, 43263>>, <<43302, 43309>>, <<43335, 43345>>, <<43392, 43394>>,
      <<43443, 43443>>, <<43446, 43449>>, <<43452, 43453>>, <<43471, 43471>>, <<43493, 43494>>,
      <<43561, 43566>>, <<43569, 43570>>, <<43573, 43574>>, <<43587, 43587>>, <<43596, 43596>>,
      <<43632, 43632>>, <<43644, 43644>>, <<43696, 43696>>, <<43698, 43700>>, <<43703, 43704>>,
      <<43710, 43711>>, <<43713, 43713>>, <<43741, 43741>>, <<43756, 43757>>, <<43763, 43764>>,
      <<43766, 43766>>, <<43867, 43871>>, <<43881, 43883>>, <<44005, 44005>>, <<44008, 44008>>,
      <<44013, 44013>>, <<64286, 64286>>, <<64434, 64450>>, <<65024, 65039>>, <<65043, 65043>>,
      <<65056, 65071>>, <<65106, 65106>>, <<65109, 65109>>, <<65279, 65279>>, <<65287, 65287>>,
      <<65294, 65294>>, <<65306, 65306>>, <<65342, 65342>>, <<65344, 65344>>, <<65392, 65392>>,
      <<65438, 65439>>, <<65507, 65507>>, <<65529, 65531>>, <<66045, 66045>>, <<66272, 66272>>,
      <<66422, 66426>>, <<67456, 67461>>, <<67463, 67504>>, <<67506, 67514>>, <<68097, 68099>>,
      <<68101, 68102>>, <<68108, 68111>>, <<68152, 68154>>, <<68159, 68159>>, <<68325, 68326>>,
      <<68900, 68903>>, <<69291, 69292>>, <<69446, 69456>>, <<69506, 69509>>, <<69633, 69633>>,
      <<69688, 69702>>, <<69744, 69744>>, <<69747, 69748>>, <<69759, 69761>>, <<69811, 69814>>,
      <<69817, 69818>>, <<69821, 69821>>, <<69826, 69826>>, <<69837, 69837>>, <<69888, 69890>>,
      <<69927, 69931>>, <<69933, 69940>>, <<70003, 70003>>, <<70016, 70017>>, <<70070, 70078>>,
      <<70089, 70092>>, <<70095, 70095>>, <<70191, 70193>>, <<70196, 70196>>, <<70198, 70199>>,
      <<70206, 70206>>, <<70367, 70367>>, <<70371, 70378>>, <<70400, 70401>>, <<70459, 70460>>,
      <<70464, 70464>>, <<70502, 70508>>, <<70512, 70516>>, <<70712, 70719>>, <<70722, 70724>>,
      <<70726, 70726>>, <<70750, 70750>>, <<70835, 70840>>, <<70842, 70842>>, <<70847, 70848>>,
      <<70850, 70851>>, <<71090, 71093>>, <<71100, 71101>>, <<71103, 71104>>, <<71132, 71133>>,
      <<71219, 71226>>, <<71229, 71229>>, <<71231, 71232>>, <<71339, 71339>>, <<71341, 71341>>,
      <<71344, 71349>>, <<71351, 71351>>, <<71453, 71455>>, <<71458, 71461>>, <<71463, 71467>>,
      <<71727, 71735>>, <<71737, 71738>>, <<71995, 71996>>, <<71998, 71998>>, <<72003, 72003>>,
      <<72148, 72151>>, <<72154, 72155>>, <<72160, 72160>>, <<72193, 72202>>, <<72243, 72248>>,
      <<72251, 72254>>, <<72263, 72263>>, <<72273, 72278>>, <<72281, 72283>>, <<72330, 72342>>,
      <<72344, 72345>>, <<72752, 72758>>, <<72760, 72765>>, <<72767, 72767>>, <<72850, 72871>>,
      <<72874, 72880>>, <<72882, 72883>>, <<72885, 72886>>, <<73009, 73014>>, <<73018, 73018>>,
      <<73020, 73021>>, <<73023, 73029>>, <<73031, 73031>>, <<73104, 73105>>, <<73109, 73109>>,
      <<73111, 73111>>, <<73459, 73460>>, <<78896, 78904>>, <<92912, 92916>>, <<92976, 92982>>,
      <<92992, 92995>>, <<94031, 94031>>, <<94095, 94111>>, <<94176, 94177>>, <<94179, 94180>>,
      <<110576, 110579>>, <<110581, 110587>>, <<110589, 110590>>, <<113821, 113822>>, <<113824, 113827>>,
      <<118528, 118573>>, <<118576, 118598>>, <<119143, 119145>>, <<119155, 119170>>, <<119173, 119179>>,
      <<119210, 119213>>, <<119362, 119364>>, <<121344, 121398>>, <<121403, 121452>>, <<121461, 121461>>,
      <<121476, 121476>>, <<121499, 121503>>, <<121505, 121519>>, <<122880, 122886>>, <<122888, 122904>>,
      <<122907, 122913>>, <<122915, 122916>>, <<122918, 122922>>, <<123184, 123197>>, <<123566, 123566>>,
      <<123628, 123631>>, <<125136, 125142>>, <<125252, 125259>>, <<127995, 127999>>, <<917505, 917505>>,
      <<917536, 917631>>, <<917760, 917999>>>>

CaseIgnorable ==
    {Char(n) : n \in UNION {r[1]..r[2] :
                               r \in {CaseIgnorableRuns[k] : k \in DOMAIN CaseIgnorableRuns}}}

\* Code point ranges of the characters with the property Cased that are
\* not Case_Ignorable.
CasedRuns ==
    <<<<65, 90>>, <<97, 122>>, <<170, 170>>, <<181, 181>>, <<186, 186>>,
      <<192, 214>>, <<216, 246>>, <<248, 442>>, <<444, 447>>, <<452, 659>>,
      <<661, 687>>, <<880, 883>>, <<886, 887>>, <<891, 893>>, <<895, 895>>,
      <<902, 902>>, <<904, 906>>, <<908, 908>>, <<910, 929>>, <<931, 1013>>,
      <<1015, 1153>>, <<1162, 1327>>, <<1329, 1366>>, <<1376, 1416>>, <<4256, 4293>>,
      <<4295, 4295>>, <<4301, 4301>>, <<4304, 4346>>, <<4349, 4351>>, <<5024, 5109>>,
      <<5112, 5117>>, <<7296, 7304>>, <<7312, 7354>>, <<7357, 7359>>, <<7424, 7467>>,
      <<7531, 7543>>, <<7545, 7578>>, <<7680, 7957>>, <<7960, 7965>>, <<7968, 8005>>,
      <<8008, 8013>>, <<8016, 8023>>, <<8025, 8025>>, <<8027, 8027>>, <<8029, 8029>>,
      <<8031, 8061>>, <<8064, 8116>>, <<8118, 8124>>, <<8126, 8126>>, <<8130, 8132>>,
      <<8134, 8140>>, <<8144, 8147>>, <<8150, 8155>>, <<8160, 8172>>, <<8178, 8180>>,
      <<8182, 8188>>, <<8450, 8450>>, <<8455, 8455>>, <<8458, 8467>>, <<8469, 8469>>,
      <<8473, 8477>>, <<8484, 8484>>, <<8486, 8486>>, <<8488, 8488>>, <<8490, 8493>>,
      <<8495, 8500>>, <<8505, 8505>>, <<8508, 8511>>, <<8517, 8521>>, <<8526, 8526>>,
      <<8544, 8575>>, <<8579, 8580>>, <<9398, 9449>>, <<11264, 11387>>, <<11390, 11492>>,
      <<11499, 11502>>, <<11506, 11507>>, <<11520, 11557>>, <<11559, 11559>>, <<11565, 11565>>,
      <<42560, 42605>>, <<42624, 42651>>, <<42786, 42863>>, <<42865, 42887>>, <<42891, 42894>>,
      <<42896, 42954>>, <<42960, 42961>>, <<42963, 42963>>, <<42965, 42969>>, <<42997, 42998>>,
      <<43002, 43002>>, <<43824, 43866>>, <<43872, 43880>>, <<43888, 43967>>, <<64256, 64262>>,
      <<64275, 64279>>, <<65313, 65338>>, <<65345, 65370>>, <<66560, 66639>>, <<66736, 66771>>,
      <<66776, 66811>>, <<66928, 66938>>, <<66940, 66954>>, <<66956, 66962>>, <<66964, 66965>>,
      <<66967, 66977>>, <<66979, 66993>>, <<66995, 67001>>, <<67003, 67004>>, <<68736, 68786>>,
      <<68800, 68850>>, <<71840, 71903>>, <<93760, 93823>>, <<119808, 119892>>, <<119894, 119964>>,
      <<119966, 119967>>, <<119970, 119970>>, <<119973, 119974>>, <<119977, 119980>>, <<119982, 119993>>,
      <<119995, 119995>>, <<119997, 120003>>, <<120005, 120069>>, <<120071, 120074>>, <<120077, 120084>>,
      <<120086, 120092>>, <<120094, 120121>>, <<120123, 120126>>, <<120128, 120132>>, <<120134, 120134>>,
      <<120138, 120144>>, <<120146, 120485>>, <<120488, 120512>>, <<120514, 120538>>, <<120540, 120570>>,
      <<120572, 120596>>, <<120598, 120628>>, <<120630, 120654>>, <<120656, 120686>>, <<120688, 120712>>,
      <<120714, 120744>>, <<120746, 120770>>, <<120772, 120779>>, <<122624, 122633>>, <<122635, 122654>>,
      <<125184, 125251>>, <<127280, 127305>>, <<127312, 127337>>, <<127344, 127369>>>>

Cased ==
    {Char(n) : n \in UNION {r[1]..r[2] : r \in {CasedRuns[k] : k \in DOMAIN CasedRuns}}}

CapitalSigma == Char(931)
FinalSigma == Char(962)

\* Whether the capital sigma at s[k] is in the Final_Sigma context: the
\* nearest character before it that is not Case_Ignorable exists and is
\* Cased, and the nearest such character after it, if any, is not Cased.
final_sigma(s, k) ==
    LET before == {j \in 1..(k - 1) : s[j] \notin CaseIgnorable}
        after == {j \in (k + 1)..Len(s) : s[j] \notin CaseIgnorable}
    IN  /\ before # {}
        /\ s[CHOOSE j \in before : \A m \in before : m <= j] \in Cased
        /\ \/ after = {}
           \/ s[CHOOSE j \in after : \A m \in after : j <= m] \notin Cased

\* The lowercase of the character s[k], as a text.
lower_at(s, k) ==
    IF s[k] = CapitalSigma /\ final_sigma(s, k) THEN <<FinalSigma>>
    ELSE IF s[k] \in UpperChars THEN ToLower[s[k]]
    ELSE <<s[k]>>

\* str.lower()
lower(s) ==
    LET RECURSIVE from(_)
        from(k) == IF k > Len(s) THEN <<>> ELSE lower_at(s, k) \o from(k + 1)
    IN  from(1)

(***************************************************************************)
(* Content Normalizer                                                      *)
(***************************************************************************)
\* The multi-part loop of parse_email_content: the first text/plain part
\* ends the loop, every text/html part met before it overwrites body.
\* Variant: the loop has no break, so a later part overwrites body.
RECURSIVE scan_parts_no_break(_, _)
scan_parts_no_break(parts, body) ==
    IF parts = <<>> THEN body
    ELSE LET part == Head(parts) IN
         IF part.ctype = "text/plain"
         THEN scan_parts_no_break(Tail(parts), decode_ignore(part.payload))
         ELSE IF part.ctype = "text/html"
              THEN scan_parts_no_break(Tail(parts),
                                       clean_html(decode_ignore(part.payload)))
              ELSE scan_parts_no_break(Tail(parts), body)

RECURSIVE scan_parts(_, _)
scan_parts(parts, body) ==
    IF parts = <<>> THEN body
    ELSE LET part == Head(parts) IN
         IF part.ctype = "text/plain" THEN decode_ignore(part.payload)
         ELSE IF part.ctype = "text/html"
              THEN scan_parts(Tail(parts), clean_html(decode_ignore(part.payload)))
              ELSE scan_parts(Tail(parts), body)

\* msg.walk(): the message itself, then its parts in declaration order.
walk(msg) == <<[ctype |-> msg.ctype, payload |-> <<>>]>> \o msg.parts

\* msg.subject.kind: "missing" (no Subject header), "str" (decode_header
\* yields text), "bytes" (decode_header yields encoded octets; utf8 tells
\* whether they decode as UTF-8).
parse_email_content(msg) ==
    LET failed(e) == [exc |-> e, subject |-> "", sender |-> msg.from_, body |-> <<>>]
        body == IF msg.multipart THEN scan_parts(walk(msg), <<>>)
                ELSE IF msg.ctype = "text/plain" THEN decode_ignore(msg.payload)
                ELSE IF msg.ctype = "text/html" THEN clean_html(decode_ignore(msg.payload))
                ELSE <<>>
    IN  IF msg.subject.kind = "missing" THEN failed("TypeError")
        ELSE IF msg.subject.kind = "bytes" /\ ~msg.subject.utf8
             THEN failed("UnicodeDecodeError")
        ELSE [exc |-> "", subject |-> msg.subject.text, sender |-> msg.from_,
              body |-> body]

(***************************************************************************)
(* JSON values carried by the analysis payload                             *)
(***************************************************************************)
JStr(s) == [t |-> "str", s |-> s]
JNull == [t |-> "null", s |-> ""]
JList == [t |-> "list", s |-> ""]

Keys == {"urgency", "reasoning", "summary"}

\* A decoded payload: t is its JSON type; for an object, keys are the fields
\* present and urgency/reasoning/summary their values.
Obj(ks, u, r, s) ==
    [t |-> "obj", keys |-> ks, urgency |-> u, reasoning |-> r, summary |-> s]
NonObj(ty) ==
    [t |-> ty, keys |-> {}, urgency |-> JNull, reasoning |-> JNull, summary |-> JNull]

(***************************************************************************)
(* Remote service: the outcome of one session.post and of reading it.      *)
(*   net     "ok" when a response came back, "error" when line 134 or the  *)
(*           post raised                                                   *)
(*   error   str(e) of the exception that line 134 or the post raised,     *)
(*           that response.json() raised (json FALSE), or that the lookup  *)
(*           of the content raised (shaped FALSE); "" otherwise            *)
(*   status  the HTTP status of the response                               *)
(*   reason  the reason phrase of the response                             *)
(*   json    whether the response body is JSON                             *)
(*   shaped  whether result["choices"][0]["message"]["content"] exists     *)
(*   content the message content                                           *)
(***************************************************************************)
\* Line 38.
XAI_API_URL == "https://api.x.ai/v1/chat/completions"

\* The statuses response.raise_for_status() turns into an HTTPError.
ErrorStatus == 400..599

\* str(e) of the HTTPError of response.raise_for_status().
HTTPErrorText(status, reason) ==
    ToString(status)
      \o (IF status < 500 THEN " Client Error: " ELSE " Server Error: ")
      \o reason \o " for url: " \o XAI_API_URL

\* str(e) of the exception a failed exchange raises: the one of line 134 or
\* 135, the HTTPError of line 139, the JSONDecodeError of line 140, the
\* KeyError, IndexError or TypeError of line 141 (the last three depend on
\* the body), the TypeError of json.loads(None) at line 143.
ErrText(x) ==
    IF x.net = "error" THEN x.error
    ELSE IF x.status \in ErrorStatus THEN HTTPErrorText(x.status, x.reason)
    ELSE IF ~x.json \/ ~x.shaped THEN x.error
    ELSE "the JSON object must be str, bytes or bytearray, not NoneType"

\* True when lines 134-141 (194-203 up to the content lookup) raise.
CallRaises(x) ==
    x.net = "error" \/ x.status \in ErrorStatus \/ ~x.json \/ ~x.shaped

\* Analysis content: kind "null" (content is null), "text" (not JSON),
\* "json" (JSON text whose decoded value is value).
\* Which return of analyze_email_with_xai is taken: "error" (line 156, the
\* outer handler), "unparseable" (line 148), "ok" (line 145).
AnalysisOutcome(x) ==
    IF CallRaises(x) \/ x.content.kind = "null" THEN "error"
    ELSE IF x.content.kind = "text" THEN "unparseable"
    ELSE "ok"

\* Variant: the outer handler returns a dict that carries only the error.
analyze_email_with_xai_bare_error(x) ==
    IF AnalysisOutcome(x) = "error"
    THEN Obj({}, JNull, JNull, JNull)
    ELSE IF x.content.kind = "text"
    THEN Obj(Keys, JStr("Unknown"), JStr("Failed to parse API response"),
             JStr("Unable to summarize due to invalid response format"))
    ELSE x.content.value

analyze_email_with_xai(x) ==
    IF AnalysisOutcome(x) = "error"
    THEN Obj(Keys, JStr("Unknown"), JStr("API error: " \o ErrText(x)),
             JStr("Unable to summarize due to API failure"))
    ELSE IF x.content.kind = "text"
    THEN Obj(Keys, JStr("Unknown"), JStr("Failed to parse API response"),
             JStr("Unable to summarize due to invalid response format"))
    ELSE x.content.value

Fallback ==
  << "T", "h", "a", "n", "k", " ", "y", "o", "u", " ", "f",
     "o", "r", " ", "y", "o", "u", "r", " ", "e", "m", "a",
     "i", "l", ".", " ", "I", " ", "w", "i", "l", "l", " ",
     "g", "e", "t", " ", "b", "a", "c", "k", " ", "t", "o",
     " ", "y", "o", "u", " ", "s", "o", "o", "n", "." >>

\* Drafting content: kind "null" or "str" with characters chars.
\* Which return of generate_response_with_xai is taken: "error" (line 209;
\* content.strip() raises AttributeError when content is null) or "ok".
DraftOutcome(x) ==
    IF CallRaises(x) \/ x.content.kind # "str" THEN "error" ELSE "ok"

generate_response_with_xai(x) ==
    IF DraftOutcome(x) = "error"
    THEN Fallback
    ELSE strip(x.content.chars)

(***************************************************************************)
(* Ticket Aggregator & Sorter                                              *)
(***************************************************************************)
\* dict.get(key, default) on a decoded payload that is an object.
get(d, key, default) == IF key \in d.keys THEN d[key] ELSE default

\* Variant: the label is looked up without regard to case.
urgency_order_casefold(u) ==
    IF u \in {JStr("High"), JStr("high")} THEN 1
    ELSE IF u = JStr("Medium") THEN 2
    ELSE IF u = JStr("Low") THEN 3
    ELSE 4

\* urgency_order.get(x["urgency"], 4)
urgency_order(u) ==
    IF u = JStr("High") THEN 1
    ELSE IF u = JStr("Medium") THEN 2
    ELSE IF u = JStr("Low") THEN 3
    ELSE 4

\* A list and a dict (a JSON array and a JSON object) are unhashable:
\* looking one up in urgency_order raises TypeError.
Unhashable(u) == u.t \in {"list", "obj"}

\* Lines 251-259.  analysis.get raises AttributeError unless analysis is a dict.
build_ticket(email_id, content, analysis, response) ==
    IF analysis.t # "obj"
    THEN [exc |-> "AttributeError", ticket |-> <<>>]
    ELSE [exc |-> "",
          ticket |-> <<[email_id |-> email_id,
                        subject |-> content.subject,
                        sender |-> content.sender,
                        urgency |-> get(analysis, "urgency", JStr("Unknown")),
                        reasoning |-> get(analysis, "reasoning", JStr("No reasoning provided")),
                        summary |-> get(analysis, "summary", JStr("No summary available")),
                        response |-> response]>>]

\* list.sort is stable: an element goes after every element whose key is
\* not greater than its own.
\* Variant: an element goes before the elements of equal key.
RECURSIVE insert_sorted_unstable(_, _)
insert_sorted_unstable(sorted, t) ==
    IF sorted = <<>> THEN <<t>>
    ELSE IF urgency_order(Head(sorted).urgency) < urgency_order(t.urgency)
         THEN <<Head(sorted)>> \o insert_sorted_unstable(Tail(sorted), t)
         ELSE <<t>> \o sorted

RECURSIVE insert_sorted(_, _)
insert_sorted(sorted, t) ==
    IF sorted = <<>> THEN <<t>>
    ELSE IF urgency_order(Head(sorted).urgency) <= urgency_order(t.urgency)
         THEN <<Head(sorted)>> \o insert_sorted(Tail(sorted), t)
         ELSE <<t>> \o sorted

RECURSIVE sort_from(_, _)
sort_from(sorted, rest) ==
    IF rest = <<>> THEN sorted
    ELSE sort_from(insert_sorted(sorted, Head(rest)), Tail(rest))

\* Variant: the sorted list is computed and dropped (sorted() for .sort()).
sort_tickets_discarded(ts) == ts

\* tickets.sort(key=lambda x: urgency_order.get(x["urgency"], 4))
sort_tickets(ts) == sort_from(<<>>, ts)

(***************************************************************************)
(* Review: destination of the reply                                        *)
(***************************************************************************)
\* A From header value: display name and bare address.
\* parseaddr(sender) yields the pair (name, address).
parseaddr(sender) == <<sender.name, sender.addr>>

\* Lines 291-293: the bare address, or the raw sender when there is none.
to_address(sender) ==
    IF parseaddr(sender)[2] # "" THEN [name |-> "", addr |-> parseaddr(sender)[2]]
    ELSE sender

(***************************************************************************)
(* Inputs of a run                                                         *)
(***************************************************************************)
Bob == [name |-> "Bob", addr |-> "b@c.d"]

StrSubject == [kind |-> "str", utf8 |-> TRUE, text |-> "Hi"]

\* A single-part text/plain message.
PlainMsg ==
    [subject |-> StrSubject, from_ |-> Bob, multipart |-> FALSE,
     ctype |-> "text/plain", payload |-> <<"o", "k", BadByte>>, parts |-> <<>>]

\* A multi-part message: an HTML part, then a plain part, then another HTML part.
AltMsg ==
    [subject |-> [kind |-> "bytes", utf8 |-> TRUE, text |-> "Hi"], from_ |-> Bob,
     multipart |-> TRUE, ctype |-> "multipart/alternative", payload |-> <<>>,
     parts |-> <<[ctype |-> "text/html", payload |-> <<"<p>", "a", "\r", "\n", "</p>">>],
                 [ctype |-> "text/plain", payload |-> <<"a">>],
                 [ctype |-> "text/html", payload |-> <<"<p>", "b", "</p>">>]>>]

\* A message without a Subject header.
NoSubjectMsg == [PlainMsg EXCEPT !.subject = [kind |-> "missing", utf8 |-> TRUE, text |-> ""]]

\* A message whose encoded subject is not UTF-8.
Latin1SubjectMsg == [PlainMsg EXCEPT !.subject = [kind |-> "bytes", utf8 |-> FALSE, text |-> "Hi"]]

Messages == {PlainMsg, AltMsg, NoSubjectMsg, Latin1SubjectMsg}

\* mail.fetch: present is FALSE when the server returns no data for the id
\* (msg_data[0] is None and msg_data[0][1] raises TypeError).
FetchResults ==
    {[present |-> TRUE, msg |-> m] : m \in Messages}
      \cup {[present |-> FALSE, msg |-> PlainMsg]}

Full(u) == Obj(Keys, JStr(u), JStr("because"), JStr("A ticket"))

\* Decoded analysis payloads of several shapes.
Payloads ==
    { Full("High"), Full("Medium"), Full("Low"),
      Full("high"),
      Obj({}, JNull, JNull, JNull),
      Obj(Keys, JNull, JNull, JNull),
      Obj(Keys, JList, JStr("because"), JStr("A ticket")),
      NonObj("list"), NonObj("null") }

\* str(e) of the ConnectionError of session.post when the host refuses the
\* connection (the text of requests 2.33 with urllib3 2.6; the part after
\* "Caused by" differs between builds of the two libraries).
Refused ==
    "HTTPSConnectionPool(host='api.x.ai', port=443): Max retries exceeded "
      \o "with url: /v1/chat/completions (Caused by NewConnectionError("
      \o "\"HTTPSConnection(host='api.x.ai', port=443): Failed to establish "
      \o "a new connection: [Errno 111] Connection refused\"))"

\* str(e) of the JSONDecodeError of response.json() for the body " oops".
NotJson == "Expecting value: line 1 column 2 (char 1)"

\* str(e) of the IndexError of result["choices"][0] for the body
\* {"choices": []}.
NoChoice == "list index out of range"

AnalysisOk(c) ==
    [net |-> "ok", error |-> "", status |-> 200, reason |-> "OK", json |-> TRUE,
     shaped |-> TRUE, content |-> c]

NoAnalysisContent == [kind |-> "null", value |-> NonObj("null")]

AnalysisExchanges ==
    {AnalysisOk([kind |-> "json", value |-> v]) : v \in Payloads}
      \cup { AnalysisOk([kind |-> "text", value |-> NonObj("null")]),
             [AnalysisOk(NoAnalysisContent) EXCEPT !.net = "error", !.error = Refused],
             [AnalysisOk(NoAnalysisContent) EXCEPT !.status = 503,
                                                   !.reason = "Service Unavailable"] }

DraftOk(c) ==
    [net |-> "ok", error |-> "", status |-> 200, reason |-> "OK", json |-> TRUE,
     shaped |-> TRUE, content |-> c]

NoDraftContent == [kind |-> "null", chars |-> <<>>]

DraftExchanges ==
    { DraftOk([kind |-> "str", chars |-> <<" ", "O", "K", "\r", "\n">>]),
      DraftOk([kind |-> "str", chars |-> <<"\r", "\n">>]),
      DraftOk(NoDraftContent),
      [DraftOk(NoDraftContent) EXCEPT !.net = "error", !.error = Refused],
      [DraftOk(NoDraftContent) EXCEPT !.status = 503,
                                      !.reason = "Service Unavailable"],
      [DraftOk(NoDraftContent) EXCEPT !.json = FALSE, !.shaped = FALSE,
                                      !.error = NotJson],
      [DraftOk(NoDraftContent) EXCEPT !.shaped = FALSE, !.error = NoChoice] }

\* What the operator may type at a y/n prompt.
Answers == {<<"y">>, <<"n">>, <<"Y">>, <<"N">>, <<"x">>, <<"X">>, <<>>}

\* What the operator may type as the replacement response.
EditTexts == {<<"h", "i", " ">>}

(***************************************************************************)
(* State of a run of main()                                                *)
(***************************************************************************)
\* No session.post call is being followed.
HttpIdle == [pc |-> "idle", method |-> "", answers |-> <<>>, total |-> 0,
             attempts |-> 0, seen |-> <<>>, result |-> ""]

\* No parse_email_content call is being followed.
NormIdle == [pc |-> "idle", msg |-> PlainMsg, body |-> <<>>]

VARIABLES
    pc,          \* position in main()
    session,     \* "none", "open" (connected and selected), "unselected"
                 \* (connected, no folder selected), "closed" (logged out)
    logouts,     \* number of mail.logout() calls
    exitStatus,  \* process exit status once the run has ended, else -1
    exc,         \* the uncaught exception that ended the run, else ""
    email_ids,   \* ids reported by the UNSEEN search, in report order
    tickets,     \* the list tickets
    i,           \* the loop variable i of enumerate(tickets, 1); 0 before the loop
    edit,        \* the local edit (the lowered answer, as characters)
    choice,      \* the local choice (the lowered answer, as characters)
    entered,     \* the text last returned by input("Enter new response:\n")
    apiCalls,    \* calls of the two clients: <<operation, email id, outcome>>
    presented,   \* email ids of the tickets printed for review, in order
    smtp,        \* send_email calls: [email_id, to, body, ok]
    stored,      \* email ids passed to mail.store(id, "+FLAGS", "\\Seen")
    console,     \* kinds of report lines printed (the y/n reminder is not tracked)
    search_result, \* status and messages[0] returned by mail.search(None, "UNSEEN")
    http,        \* one session.post call: its position, attempts and result
    norm         \* one parse_email_content call: its argument and its result

vars == <<pc, session, logouts, exitStatus, exc, email_ids, tickets, i, edit,
          choice, entered, apiCalls, presented, smtp, stored, console,
          search_result, http, norm>>

\* No search has been made.
\* messages[0] of a search reply: None (the server sent no SEARCH line) or
\* the octets of the SEARCH line after its name.
NoData == [kind |-> "none", bytes |-> <<>>]
Bytes(b) == [kind |-> "bytes", bytes |-> b]

NoSearch == [status |-> "", messages |-> NoData]

Init ==
    /\ pc = "connect"
    /\ session = "none"
    /\ logouts = 0
    /\ exitStatus = -1
    /\ exc = ""
    /\ email_ids = <<>>
    /\ tickets = <<>>
    /\ i = 0
    /\ edit = <<>>
    /\ choice = <<>>
    /\ entered = <<>>
    /\ apiCalls = <<>>
    /\ presented = <<>>
    /\ smtp = <<>>
    /\ stored = <<>>
    /\ console = {}
    /\ search_result = NoSearch
    /\ http = HttpIdle
    /\ norm = NormIdle

\* An uncaught exception ends the process with a traceback and status 1.
Crash(e) ==
    /\ pc' = "crashed"
    /\ exc' = e
    /\ exitStatus' = 1

\* How the IMAP dialogue of connect_to_email goes: "ok"; IMAP4_SSL, login or
\* select raises; or select answers NO (a folder that cannot be selected),
\* which imaplib returns as a status without raising.
ConnectOutcomes == {"ok", "connect_raises", "login_raises", "select_raises", "select_no"}

\* Variant: the handler of lines 63-66 reports the error and returns None.
connect_to_email_returns_none(outcome) ==
    IF outcome = "ok" THEN [mail |-> "open", exited |-> FALSE]
    ELSE IF outcome = "select_no" THEN [mail |-> "unselected", exited |-> FALSE]
    ELSE [mail |-> "none", exited |-> FALSE]

\* connect_to_email (lines 55-66): the session returned, or sys.exit(1).
connect_to_email(outcome) ==
    IF outcome = "ok" THEN [mail |-> "open", exited |-> FALSE]
    ELSE IF outcome = "select_no" THEN [mail |-> "unselected", exited |-> FALSE]
    ELSE [mail |-> "none", exited |-> TRUE]

\* Line 233.
Connect ==
    /\ pc = "connect"
    /\ UNCHANGED <<search_result, http, norm>>
    /\ \E outcome \in ConnectOutcomes :
         LET r == connect_to_email(outcome) IN
         IF ~r.exited
         THEN /\ session' = r.mail
              /\ pc' = "search"
              /\ console' = console \cup (IF r.mail = "none"
                                           THEN {"Error connecting to email"} ELSE {})
              /\ UNCHANGED exitStatus
         ELSE /\ pc' = "exited"
              /\ exitStatus' = 1
              /\ console' = console \cup {"Error connecting to email"}
              /\ UNCHANGED session
    /\ UNCHANGED <<logouts, exc, email_ids, tickets, i, edit, choice, entered,
                   apiCalls, presented, smtp, stored>>

\* The octets bytes.split() holds to be white space.
BytesWhitespace == {" ", "\t", "\n", "\r", "\f", "<U+000B>"}

\* bytes.split(): the maximal runs of octets that are not white space.
split(b) ==
    LET RECURSIVE scan(_, _, _)
        scan(rest, word, out) ==
            IF rest = <<>>
            THEN IF word = "" THEN out ELSE Append(out, word)
            ELSE IF Head(rest) \in BytesWhitespace
            THEN scan(Tail(rest), "", IF word = "" THEN out ELSE Append(out, word))
            ELSE scan(Tail(rest), word \o Head(rest), out)
    IN  scan(b, "", <<>>)

\* The SEARCH data that lists the ids 1..n.
RECURSIVE Listing(_)
Listing(n) ==
    IF n = 0 THEN <<>>
    ELSE IF n = 1 THEN <<"1">>
    ELSE Listing(n - 1) \o <<" ", ToString(n)>>

\* What messages[0] may be: None, no octets, blank octets, or a list of ids.
SearchData ==
    {NoData, Bytes(<<>>), Bytes(<<" ">>)} \cup {Bytes(Listing(n)) : n \in 1..MaxMsgs}

\* not messages[0]: None and b"" are false.
falsy(data) == data.kind = "none" \/ data.bytes = <<>>

\* Variant: only the data is tested.
no_unread_ids_only(status, data) == falsy(data)

\* Line 235: if status != "OK" or not messages[0]
no_unread(status, data) == status # "OK" \/ falsy(data)

\* Lines 234-242: the UNSEEN search and the early return.  Without a
\* selected folder (or without a session) mail.search itself raises.
Search ==
    /\ pc = "search"
    /\ UNCHANGED <<http, norm>>
    /\ IF session # "open"
       THEN /\ Crash(IF session = "none" THEN "AttributeError" ELSE "imaplib.error")
            /\ UNCHANGED <<console, logouts, session, email_ids, search_result>>
       ELSE \E status \in {"OK", "NO"}, data \in SearchData :
              /\ search_result' = [status |-> status, messages |-> data]
              /\ IF no_unread(status, data)
                 THEN /\ console' = console \cup {"No unread emails found."}
                      /\ logouts' = logouts + 1
                      /\ session' = "closed"
                      /\ pc' = "done"
                      /\ exitStatus' = 0
                      /\ UNCHANGED <<email_ids, exc>>
                 ELSE /\ email_ids' = split(data.bytes)
                      /\ pc' = IF email_ids' = <<>> THEN "sort" ELSE "fetch"
                      /\ UNCHANGED <<console, logouts, session, exitStatus, exc>>
    /\ UNCHANGED <<tickets, i, edit, choice, entered, apiCalls, presented,
                   smtp, stored>>

\* Variant: the ids are taken from the end of the list.
current_id_reversed(ids, done) == ids[Len(ids) - done]

\* Line 244: for email_id in email_ids -- the id taken after done iterations.
current_id(ids, done) == ids[done + 1]

\* One iteration of the loop of lines 244-261.
ProcessMessage ==
    /\ pc = "fetch"
    /\ UNCHANGED <<search_result, http, norm>>
    /\ Len(tickets) < Len(email_ids)
    /\ \E f \in FetchResults, ax \in AnalysisExchanges, dx \in DraftExchanges :
         LET email_id == current_id(email_ids, Len(tickets))
             content == parse_email_content(f.msg)
             analysis == analyze_email_with_xai(ax)
             response == generate_response_with_xai(dx)
             built == build_ticket(email_id, content, analysis, response)
             called == apiCalls \o <<<<"analyze", email_id, AnalysisOutcome(ax)>>,
                                      <<"draft", email_id, DraftOutcome(dx)>>>>
             printed == console
                          \cup (IF AnalysisOutcome(ax) = "error"
                                THEN {"Error with xAI API"} ELSE {})
                          \cup (IF DraftOutcome(dx) = "error"
                                THEN {"Error generating response"} ELSE {})
         IN  IF ~f.present
             THEN Crash("TypeError") /\ UNCHANGED <<tickets, apiCalls, console>>
             ELSE IF content.exc # ""
             THEN Crash(content.exc) /\ UNCHANGED <<tickets, apiCalls, console>>
             ELSE IF built.exc # ""
             THEN /\ Crash(built.exc)
                  /\ apiCalls' = called
                  /\ console' = printed
                  /\ UNCHANGED tickets
             ELSE /\ tickets' = tickets \o built.ticket
                  /\ apiCalls' = called
                  /\ console' = printed
                  /\ pc' = IF Len(tickets) + 1 = Len(email_ids) THEN "sort" ELSE "fetch"
                  /\ UNCHANGED <<exc, exitStatus>>
    /\ UNCHANGED <<session, logouts, email_ids, i, edit, choice, entered, presented,
                   smtp, stored>>

\* Lines 263-264.
Sort ==
    /\ pc = "sort"
    /\ UNCHANGED <<search_result, http, norm>>
    /\ IF \E k \in 1..Len(tickets) : Unhashable(tickets[k].urgency)
       THEN Crash("TypeError") /\ UNCHANGED tickets
       ELSE /\ tickets' = sort_tickets(tickets)
            /\ pc' = IF tickets = <<>> THEN "logout" ELSE "present"
            /\ UNCHANGED <<exc, exitStatus>>
    /\ UNCHANGED <<session, logouts, email_ids, i, edit, choice, entered, apiCalls,
                   presented, smtp, stored, console>>

\* Lines 266-273: the loop takes the next ticket and prints it.
Present ==
    /\ pc = "present"
    /\ UNCHANGED <<search_result, http, norm>>
    /\ i' = i + 1
    /\ presented' = Append(presented, tickets[i'].email_id)
    /\ pc' = "edit_prompt"
    /\ UNCHANGED <<session, logouts, exitStatus, exc, email_ids, tickets, edit,
                   choice, entered, apiCalls, smtp, stored, console>>

\* Variant: the test is a substring test (if edit in "yn"), which the empty
\* answer passes.
valid_answer_substring(a) == a \in {<<"y">>, <<"n">>, <<>>, <<"y", "n">>}

\* Lines 277 and 286: if edit in ["y", "n"] / if choice in ["y", "n"]
valid_answer(a) == a \in {<<"y">>, <<"n">>}

\* Lines 275-280: one pass of the edit prompt loop.
EditPrompt ==
    /\ pc = "edit_prompt"
    /\ UNCHANGED <<search_result, http, norm>>
    /\ \E typed \in Answers :
         /\ edit' = lower(typed)
         /\ IF valid_answer(edit')
            THEN pc' = IF edit' = <<"y">> THEN "edit_input" ELSE "send_prompt"
            ELSE UNCHANGED pc
    /\ UNCHANGED <<session, logouts, exitStatus, exc, email_ids, tickets, i,
                   choice, entered, apiCalls, presented, smtp, stored, console>>

\* ticket["response"] = input("Enter new response:\n")
set_response(ts, k, text) == [ts EXCEPT ![k].response = text]

\* Lines 281-282.
EditInput ==
    /\ pc = "edit_input"
    /\ UNCHANGED <<search_result, http, norm>>
    /\ \E text \in EditTexts :
         /\ entered' = text
         /\ tickets' = set_response(tickets, i, text)
    /\ pc' = "send_prompt"
    /\ UNCHANGED <<session, logouts, exitStatus, exc, email_ids, i, edit,
                   choice, apiCalls, presented, smtp, stored, console>>

\* Leaving the body of the review loop: the next ticket, or line 298.
AfterTicket == IF i < Len(tickets) THEN "present" ELSE "logout"

\* Variant: the test is always true (if choice == "y" or "Y":).
send_chosen_always(c) == TRUE

\* Variant: the test is on the truth of choice (if choice:).
send_chosen_truthy(c) == c # <<>>

\* Line 290: if choice == "y"
send_chosen(c) == c = <<"y">>

\* Lines 284-290: one pass of the send prompt loop.
SendPrompt ==
    /\ pc = "send_prompt"
    /\ UNCHANGED <<search_result, http, norm>>
    /\ \E typed \in Answers :
         /\ choice' = lower(typed)
         /\ IF valid_answer(choice')
            THEN pc' = IF send_chosen(choice') THEN "send" ELSE AfterTicket
            ELSE UNCHANGED pc
    /\ UNCHANGED <<session, logouts, exitStatus, exc, email_ids, tickets, i, edit,
                   entered, apiCalls, presented, smtp, stored, console>>

\* Variant: the handler of lines 226-228 reports the error and raises it again.
send_email_reraises(email_id, to, body, delivered) ==
    [email_id |-> email_id, to |-> to, body |-> body, ok |-> delivered,
     exc |-> IF delivered THEN "" ELSE "SMTPException"]

\* send_email (lines 211-228): delivered is the outcome of the SMTP dialogue;
\* a failure is caught, logged and printed, and the function returns None
\* (exc, the exception that leaves the function, is always "").
send_email(email_id, to, body, delivered) ==
    [email_id |-> email_id, to |-> to, body |-> body, ok |-> delivered, exc |-> ""]

\* Lines 291-296.
SendReply ==
    /\ pc = "send"
    /\ UNCHANGED <<search_result, http, norm>>
    /\ \E delivered \in BOOLEAN :
         LET ticket == tickets[i]
             sent == send_email(ticket.email_id, to_address(ticket.sender),
                                ticket.response, delivered)
         IN  /\ smtp' = Append(smtp, sent)
             /\ console' = console \cup {IF delivered THEN "Response sent"
                                         ELSE "Error sending email"}
             /\ IF sent.exc # ""
                THEN Crash(sent.exc) /\ UNCHANGED stored
                ELSE /\ stored' = Append(stored, ticket.email_id)
                     /\ pc' = AfterTicket
                     /\ UNCHANGED <<exitStatus, exc>>
    /\ UNCHANGED <<session, logouts, email_ids, tickets, i, edit,
                   choice, entered, apiCalls, presented>>

\* Lines 298-299.
Logout ==
    /\ pc = "logout"
    /\ UNCHANGED <<search_result, http, norm>>
    /\ logouts' = logouts + 1
    /\ session' = "closed"
    /\ pc' = "done"
    /\ exitStatus' = 0
    /\ UNCHANGED <<exc, email_ids, tickets, i, edit, choice, entered, apiCalls,
                   presented, smtp, stored, console>>

Next ==
    \/ Connect
    \/ Search
    \/ ProcessMessage
    \/ Sort
    \/ Present
    \/ EditPrompt
    \/ EditInput
    \/ SendPrompt
    \/ SendReply
    \/ Logout

Spec == Init /\ [][Next]_vars

(***************************************************************************)
(* One session.post call under the retry policy of lines 129-131 (and      *)
(* 189-191): Retry(total=3, backoff_factor=1, status_forcelist=[502, 503,  *)
(* 504]) mounted on the session.  The policy is urllib3's: total counts    *)
(* retries, a status of the forcelist is retried only for the methods the  *)
(* policy allows (no allowed_methods is passed, so the default set, which  *)
(* has no POST), a failure to connect is retried for any method, and an    *)
(* error after the request was sent is retried only for an allowed method. *)
(***************************************************************************)
\* Number of answers the service is scripted to give to one call.
ScriptLen == 4

\* Retry(total=3, ...)
RetryTotal == 3

\* status_forcelist=[502, 503, 504]
StatusForcelist == {502, 503, 504}

\* Retry.DEFAULT_ALLOWED_METHODS
AllowedMethods == {"HEAD", "GET", "PUT", "DELETE", "OPTIONS", "TRACE"}

Status(code) == [kind |-> "status", code |-> code]
ConnectError == [kind |-> "connect_error", code |-> 0]
ReadError == [kind |-> "read_error", code |-> 0]

\* What the service may do with one request.
HttpAnswers ==
    {Status(200), Status(400), Status(401), Status(502), Status(503), Status(504),
     ConnectError, ReadError}

\* Whether the policy asks for another attempt after answer a.
is_retry(method, a) ==
    CASE a.kind = "status" -> method \in AllowedMethods /\ a.code \in StatusForcelist
      [] a.kind = "connect_error" -> TRUE
      [] a.kind = "read_error" -> method \in AllowedMethods

\* The call starts: session.post(XAI_API_URL, ...) at line 135 or 197.
HttpInit ==
    /\ Init!1 /\ Init!2 /\ Init!3 /\ Init!4 /\ Init!5 /\ Init!6 /\ Init!7
    /\ Init!8 /\ Init!9 /\ Init!10 /\ Init!11 /\ Init!12 /\ Init!13
    /\ Init!14 /\ Init!15 /\ Init!16 /\ Init!17
    /\ norm = NormIdle
    /\ \E script \in [1..ScriptLen -> HttpAnswers] :
          http = [pc |-> "sending", method |-> "POST", answers |-> script,
                  total |-> RetryTotal, attempts |-> 0, seen |-> <<>>,
                  result |-> ""]

\* One request attempt and the decision the policy takes on its answer:
\* return the response, try again, or raise.
HttpAttempt ==
    /\ http.pc = "sending"
    /\ http.answers # <<>>
    /\ LET a == Head(http.answers)
           tried == [http EXCEPT !.answers = Tail(@), !.attempts = @ + 1,
                                 !.seen = Append(@, a)]
       IN  http' =
             IF ~is_retry(http.method, a)
             THEN [tried EXCEPT !.pc = "returned",
                                !.result = IF a.kind = "status" THEN "response"
                                           ELSE "raised"]
             ELSE IF http.total - 1 < 0
             THEN [tried EXCEPT !.pc = "returned", !.result = "raised"]
             ELSE [tried EXCEPT !.total = @ - 1]
    /\ UNCHANGED <<pc, session, logouts, exitStatus, exc, email_ids, tickets, i,
                   edit, choice, entered, apiCalls, presented, smtp, stored,
                   console, search_result, norm>>

\* Lines 136-139 (198-201): response.raise_for_status() turns a 4xx or 5xx
\* response into an exception; the call has then failed or succeeded.
HttpFinish ==
    /\ http.pc = "returned"
    /\ LET last == http.seen[Len(http.seen)] IN
       http' = [http EXCEPT !.pc = "done",
                            !.result = IF http.result = "raised" \/ last.code \in ErrorStatus
                                       THEN "error" ELSE "ok"]
    /\ UNCHANGED <<pc, session, logouts, exitStatus, exc, email_ids, tickets, i,
                   edit, choice, entered, apiCalls, presented, smtp, stored,
                   console, search_result, norm>>

HttpNext == HttpAttempt \/ HttpFinish

SpecHttp == HttpInit /\ [][HttpNext]_vars

(***************************************************************************)
(* One parse_email_content call on a message drawn from a bounded set.     *)
(***************************************************************************)
\* Largest number of parts of a multi-part message.
MaxParts == 3

Parts ==
    { [ctype |-> "text/plain", payload |-> <<"a", BadByte>>],
      [ctype |-> "text/plain", payload |-> <<"b">>],
      [ctype |-> "text/html", payload |-> <<"<p>", "x", "\r", "\n", "</p>">>],
      [ctype |-> "text/html", payload |-> <<"y", "\r", "\n", "z">>],
      [ctype |-> "image/png", payload |-> <<"i">>] }

MultipartMsgs ==
    { [subject |-> StrSubject, from_ |-> Bob, multipart |-> TRUE,
       ctype |-> "multipart/mixed", payload |-> <<>>, parts |-> ps] :
         ps \in UNION {[1..n -> Parts] : n \in 0..MaxParts} }

SinglePartMsgs ==
    { [subject |-> StrSubject, from_ |-> Bob, multipart |-> FALSE,
       ctype |-> p.ctype, payload |-> p.payload, parts |-> <<>>] : p \in Parts }

NormInit ==
    /\ Init!1 /\ Init!2 /\ Init!3 /\ Init!4 /\ Init!5 /\ Init!6 /\ Init!7
    /\ Init!8 /\ Init!9 /\ Init!10 /\ Init!11 /\ Init!12 /\ Init!13
    /\ Init!14 /\ Init!15 /\ Init!16 /\ Init!17
    /\ http = HttpIdle
    /\ \E m \in MultipartMsgs \cup SinglePartMsgs :
          norm = [pc |-> "ready", msg |-> m, body |-> <<>>]

\* Line 247: subject, sender, body = parse_email_content(msg)
Normalize ==
    /\ norm.pc = "ready"
    /\ norm' = [norm EXCEPT !.pc = "done",
                            !.body = parse_email_content(norm.msg).body]
    /\ UNCHANGED <<pc, session, logouts, exitStatus, exc, email_ids, tickets, i,
                   edit, choice, entered, apiCalls, presented, smtp, stored,
                   console, search_result, http>>

NormNext == Normalize

SpecNorm == NormInit /\ [][NormNext]_vars

(***************************************************************************)
(* Properties                                                              *)
(***************************************************************************)
Range(q) == {q[k] : k \in DOMAIN q}

Ended == pc \in {"done", "crashed", "exited"}

\* Positions of main() after line 264.
AfterSort == {"present", "edit_prompt", "edit_input", "send_prompt", "send",
              "logout", "done"}

\* Position of an email id in the order the mailbox reported it.
FetchPos(id) == CHOOSE k \in 1..Len(email_ids) : email_ids[k] = id

RankOf(u) ==
    CASE u = JStr("High") -> 1
      [] u = JStr("Medium") -> 2
      [] u = JStr("Low") -> 3
      [] OTHER -> 4

Count(q, x) == Cardinality({k \in DOMAIN q : q[k] = x})

IsPermutation(a, b) ==
    /\ Len(a) = Len(b)
    /\ \A x \in Range(a) \cup Range(b) : Count(a, x) = Count(b, x)

Delivered(id) == \E m \in 1..Len(smtp) : smtp[m].email_id = id /\ smtp[m].ok

MailerInvoked(id) == \E m \in 1..Len(smtp) : smtp[m].email_id = id

\* C1: mark-as-read is issued for a ticket's message if and only if the
\* operator chose send and the outbound send succeeded.
C1_MarkReadIffSendSucceeded ==
    \A k \in 1..Len(tickets) :
        (tickets[k].email_id \in Range(stored)) <=> Delivered(tickets[k].email_id)

\* C2: once the build loop is over, however it ended, there is exactly one
\* ticket per unread message id.
C2_OneTicketPerMessage ==
    pc \notin {"connect", "search", "fetch"} => Len(tickets) = Len(email_ids)

\* C3: once the session has been acquired, a run that has ended has called
\* logout exactly once (and no run calls it twice).
C3_LogoutExactlyOnce ==
    /\ logouts <= 1
    /\ (Ended /\ session # "none") => logouts = 1

\* Indices of the messages whose processing raised.
FailedMessages ==
    IF pc # "crashed" THEN {}
    ELSE IF Len(tickets) < Len(email_ids) THEN {Len(tickets) + 1}
    ELSE {k \in 1..Len(tickets) : Unhashable(tickets[k].urgency)}

\* C4: when the run has ended, every unread message other than one whose
\* processing failed has become a ticket and has been presented for review.
C4_FailureIsolated ==
    Ended =>
        \A k \in 1..Len(email_ids) :
            k \notin FailedMessages =>
                /\ \E t \in 1..Len(tickets) : tickets[t].email_id = email_ids[k]
                /\ email_ids[k] \in Range(presented)

Sorted(ts) ==
    \A k \in 1..(Len(ts) - 1) : RankOf(ts[k].urgency) <= RankOf(ts[k + 1].urgency)

\* C5: after sorting, adjacent tickets of the review sequence are in
\* ascending rank (High 1, Medium 2, Low 3, anything else 4), and the sort
\* step yields a permutation of the tickets built.
C5_SortedPermutation ==
    /\ [](pc \in AfterSort => Sorted(tickets))
    /\ [][(pc = "sort" /\ pc' = "present") => IsPermutation(tickets, tickets')]_vars

\* The sort has moved a later fetched, more urgent ticket to the front.
C5_Witness ==
    /\ pc = "present" /\ i = 0
    /\ Len(tickets) >= 2
    /\ FetchPos(tickets[1].email_id) > FetchPos(tickets[2].email_id)
    /\ RankOf(tickets[1].urgency) < RankOf(tickets[2].urgency)

\* C6: after sorting, two tickets with equal urgency are in the order in
\* which their messages were fetched.
C6_SortStable ==
    pc \in AfterSort =>
        \A a, b \in 1..Len(tickets) :
            (a < b /\ tickets[a].urgency = tickets[b].urgency)
                => FetchPos(tickets[a].email_id) < FetchPos(tickets[b].email_id)

\* Two tickets of equal urgency have gone through the sort.
C6_Witness ==
    /\ pc = "present" /\ i = 0
    /\ \E a, b \in 1..Len(tickets) : a < b /\ tickets[a].urgency = tickets[b].urgency

\* Reasoning texts that report a failed service call.
FailureReasonings ==
    {JStr("API error: " \o ErrText(x)) :
        x \in {y \in AnalysisExchanges : AnalysisOutcome(y) = "error"}}

\* C7: a failed analysis call does not end the run: its message has a
\* ticket with urgency Unknown, a reasoning reporting the failure and a
\* non-empty summary.
C7_AnalysisFailureDegrades ==
    \A c \in 1..Len(apiCalls) :
        (apiCalls[c][1] = "analyze" /\ apiCalls[c][3] = "error") =>
            \E k \in 1..Len(tickets) :
                /\ tickets[k].email_id = apiCalls[c][2]
                /\ tickets[k].urgency = JStr("Unknown")
                /\ tickets[k].reasoning \in FailureReasonings
                /\ tickets[k].summary.t = "str" /\ tickets[k].summary.s # ""

\* After a failed analysis of the first message the loop is at the second.
C7_Witness ==
    /\ pc = "fetch"
    /\ Len(tickets) = 1 /\ Len(email_ids) > 1
    /\ apiCalls[1] = <<"analyze", email_ids[1], "error">>

UrgencyEnum == {JStr("Low"), JStr("Medium"), JStr("High"), JStr("Unknown")}

\* C8: every ticket has an urgency among Low, Medium, High, Unknown and a
\* non-null reasoning and summary, and neither building a ticket nor
\* sorting the batch faults.
C8_TicketsFullyPopulated ==
    /\ \A k \in 1..Len(tickets) :
          /\ tickets[k].urgency \in UrgencyEnum
          /\ tickets[k].reasoning.t # "null"
          /\ tickets[k].summary.t # "null"
    /\ ~(/\ pc = "crashed" /\ email_ids # <<>>
          /\ (exc = "AttributeError" \/ Len(tickets) = Len(email_ids)))

\* Index of the first ticket the operator has not yet been asked to edit.
FirstUnedited ==
    IF pc \in {"fetch", "sort"} THEN 1 ELSE IF pc = "present" THEN i + 1 ELSE i

\* C9: the draft response of a ticket is non-empty up to the moment the
\* operator is asked whether to edit it.
C9_DraftNonEmpty ==
    pc \in {"fetch", "sort", "present", "edit_prompt"} =>
        \A k \in FirstUnedited..Len(tickets) : tickets[k].response # <<>>

\* C10: when the operator has just declined to send a ticket, the mailer
\* has not been invoked for it, no mark-as-read has been issued for its
\* message, and if the operator edited, its response is the text entered.
C10_DeclineLeavesUnread ==
    (pc \in {"present", "logout"} /\ choice = <<"n">>) =>
        LET t == tickets[i] IN
        /\ ~MailerInvoked(t.email_id)
        /\ t.email_id \notin Range(stored)
        /\ (edit = <<"y">> => t.response = entered)

\* The operator replaced the draft and then declined to send.
C10_Witness ==
    /\ pc \in {"present", "logout"} /\ choice = <<"n">> /\ edit = <<"y">>
    /\ tickets[i].response = <<"h", "i", " ">>

\* Email ids of the tickets in review order.
TicketIds == [k \in 1..Len(tickets) |-> tickets[k].email_id]

\* C11: a failed delivery is reported and does not end the run: the run
\* never stops on an exception after it, and once the run is over every
\* ticket of the sorted sequence has been presented, in order, and the
\* session has been logged out.
C11_DeliveryFailureRecovered ==
    (\E m \in 1..Len(smtp) : ~smtp[m].ok) =>
        /\ "Error sending email" \in console
        /\ pc # "crashed"
        /\ pc \in {"present", "edit_prompt", "edit_input", "send_prompt", "send",
                   "logout", "done"}
        /\ pc \in {"logout", "done"} => presented = TicketIds
        /\ pc = "done" => (logouts = 1 /\ session = "closed")

\* The reply to the first of two tickets failed and the run ended normally.
C11_Witness ==
    /\ pc = "done"
    /\ Len(tickets) = 2 /\ Len(presented) = 2
    /\ smtp # <<>> /\ smtp[1].email_id = tickets[1].email_id /\ ~smtp[1].ok

\* The run reported no unread mail, did nothing else, logged out and
\* ended normally.
QuietExit ==
    /\ pc = "done" /\ exitStatus = 0 /\ exc = ""
    /\ "No unread emails found." \in console
    /\ email_ids = <<>> /\ tickets = <<>> /\ apiCalls = <<>>
    /\ presented = <<>> /\ smtp = <<>> /\ stored = <<>>
    /\ logouts = 1 /\ session = "closed"

\* C12: once the search has reported zero unread messages, the run builds
\* no ticket, calls neither client, sends and marks nothing and does not
\* stop on an exception, and when it is over it has printed the no-unread
\* message, logged out once and ended normally.
C12_NoUnreadQuietExit ==
    (search_result # NoSearch /\ split(search_result.messages.bytes) = <<>>) =>
        /\ pc \in {"sort", "logout", "done"}
        /\ email_ids = <<>> /\ tickets = <<>> /\ apiCalls = <<>>
        /\ presented = <<>> /\ smtp = <<>> /\ stored = <<>>
        /\ pc = "done" => QuietExit

\* Nothing has been fetched, analysed, drafted, presented, sent or marked.
NothingDone ==
    /\ search_result = NoSearch /\ email_ids = <<>> /\ tickets = <<>>
    /\ apiCalls = <<>> /\ presented = <<>> /\ smtp = <<>> /\ stored = <<>>

\* C13: without an established mailbox connection the run ends at once
\* with a non-zero exit status, and nothing has been fetched, analysed,
\* drafted, presented, sent or marked read.
C13_ConnectionFailureFatal ==
    /\ session = "none" => pc \in {"connect", "exited"}
    /\ pc = "exited" => (exitStatus = 1 /\ session = "none" /\ NothingDone)
    /\ session = "unselected" =>
          /\ pc \in {"search", "crashed"}
          /\ NothingDone
          /\ pc = "crashed" => exitStatus = 1

\* The connection failed and the process has exited.
C13_Witness ==
    /\ pc = "exited" /\ exitStatus = 1
    /\ "Error connecting to email" \in console

\* C19: a search status other than OK is treated like an empty mailbox,
\* also when ids came with it: no-unread report, no ticket, one logout,
\* normal end.
C19_SearchNotOkQuietExit ==
    search_result.status \notin {"", "OK"} => QuietExit

\* The search answered NO together with ids.
C19_Witness ==
    /\ search_result.status = "NO" /\ split(search_result.messages.bytes) # <<>>
    /\ pc = "done"

\* Answers after which the claim allows another attempt.
Transient(a) == a.kind = "status" /\ a.code \in {502, 503, 504}

\* C14: a call makes at most 3 request attempts, every attempt after the
\* first follows an answer 502, 503 or 504, and a call whose first answer
\* is not one of these ends after a single attempt.
C14_AtMostThreeAttempts ==
    /\ http.attempts <= 3
    /\ \A k \in 2..Len(http.seen) : Transient(http.seen[k - 1])
    /\ (http.pc = "done" /\ ~Transient(http.seen[1])) => http.attempts = 1

PartsOfType(ps, ty) == {k \in 1..Len(ps) : ps[k].ctype = ty}

Min(S) == CHOOSE x \in S : \A y \in S : x <= y
Max(S) == CHOOSE x \in S : \A y \in S : x >= y

\* C18: the body of a multi-part message is its first text/plain part if
\* it has one, whatever HTML parts surround it; else the cleaned text of
\* its last text/html part; else empty.
C18_PlainFirstElseLastHtml ==
    (norm.pc = "done" /\ norm.msg.multipart) =>
        LET ps == norm.msg.parts
            plain == PartsOfType(ps, "text/plain")
            html == PartsOfType(ps, "text/html")
        IN  norm.body =
              IF plain # {} THEN decode_ignore(ps[Min(plain)].payload)
              ELSE IF html # {} THEN clean_html(decode_ignore(ps[Max(html)].payload))
              ELSE <<>>

\* A message with an HTML part, then two different plain parts, normalized.
C18_Witness ==
    /\ norm.pc = "done" /\ norm.msg.multipart
    /\ Len(norm.msg.parts) = 3
    /\ norm.msg.parts[1].ctype = "text/html"
    /\ norm.msg.parts[2].ctype = "text/plain"
    /\ norm.msg.parts[3].ctype = "text/plain"
    /\ norm.msg.parts[2] # norm.msg.parts[3]
    /\ norm.body = decode_ignore(norm.msg.parts[2].payload)

\* C15: the two clients are called message by message in the order the
\* mailbox reported the ids, analysis before drafting; no ticket is
\* presented before the last message has been analysed and drafted;
\* tickets are presented one at a time in the sorted order, and a ticket
\* is presented only when the send decision of the one before is resolved.
C15_BuildThenReviewInOrder ==
    /\ \A k \in 1..Len(apiCalls) :
          /\ apiCalls[k][1] = (IF k % 2 = 1 THEN "analyze" ELSE "draft")
          /\ apiCalls[k][2] = email_ids[(k + 1) \div 2]
    /\ presented # <<>> => Len(apiCalls) = 2 * Len(email_ids)
    /\ Len(presented) = i
    /\ \A k \in 1..Len(presented) : presented[k] = tickets[k].email_id
    /\ pc \in AfterSort => Sorted(tickets)
    /\ (pc = "present" /\ i >= 1) =>
          /\ choice \in {<<"y">>, <<"n">>}
          /\ choice = <<"y">> =>
                (smtp # <<>> /\ smtp[Len(smtp)].email_id = tickets[i].email_id)

\* The second message fetched is reviewed first, and its decision is taken.
C15_Witness ==
    /\ pc = "present" /\ i = 1 /\ Len(tickets) = 2
    /\ tickets[1].email_id = email_ids[2]
    /\ choice = <<"y">>

\* C16: the mailer is invoked at most once per ticket, and only as the step
\* that follows the operator's answer y to the send prompt of that ticket;
\* calls already made are never undone.
C16_SendAtMostOnceAfterYes ==
    /\ [](\A m, n \in 1..Len(smtp) : smtp[m].email_id = smtp[n].email_id => m = n)
    /\ [][smtp' # smtp =>
            /\ pc = "send" /\ choice = <<"y">>
            /\ smtp' = Append(smtp, smtp'[Len(smtp')])
            /\ smtp'[Len(smtp')].email_id = tickets[i].email_id
            /\ presented[Len(presented)] = tickets[i].email_id]_vars

\* Both tickets of a run have been sent.
C16_Witness ==
    /\ pc = "done" /\ Len(smtp) = 2
    /\ smtp[1].ok /\ smtp[2].ok

\* C17: at the edit prompt and at the send prompt the ticket, the mailer
\* and the read marks are left alone; an answer other than y or n keeps
\* the run at the same prompt, a valid one moves it on; the send prompt is
\* reached only from the edit decision, and sending only from the send prompt.
C17_PromptDiscipline ==
    [][/\ pc = "edit_prompt" =>
            /\ tickets' = tickets /\ smtp' = smtp /\ stored' = stored
            /\ pc' = (IF edit' = <<"y">> THEN "edit_input"
                      ELSE IF edit' = <<"n">> THEN "send_prompt" ELSE "edit_prompt")
       /\ pc = "send_prompt" =>
            /\ tickets' = tickets /\ smtp' = smtp /\ stored' = stored
            /\ (choice' \notin {<<"y">>, <<"n">>}) = (pc' = "send_prompt")
            /\ choice' = <<"y">> => pc' = "send"
       /\ pc' = "send_prompt" => pc \in {"edit_prompt", "edit_input", "send_prompt"}
       /\ pc' = "send" => pc = "send_prompt"
       /\ pc' = "edit_input" => pc = "edit_prompt"]_vars

\* An invalid answer was given at the send prompt, and nothing was sent.
C17_Witness ==
    /\ pc = "send_prompt" /\ choice = <<"x">> /\ edit \in {<<"y">>, <<"n">>}
    /\ smtp = <<>> /\ stored = <<>>

\* Urgency strings that are not exactly High, Medium or Low, Unknown apart.
OtherLabel(u) == u.t = "str" /\ u.s \notin {"High", "Medium", "Low", "Unknown"}

\* C20: after sorting, a ticket whose urgency is another string than High,
\* Medium or Low comes after every High, Medium and Low ticket, and it is
\* ordered with the Unknown tickets by fetch order alone; the ticket keeps
\* the string it was given.
C20_OtherLabelRanksLast ==
    pc \in AfterSort =>
        \A a, b \in 1..Len(tickets) :
            OtherLabel(tickets[a].urgency) =>
                /\ tickets[b].urgency \in {JStr("High"), JStr("Medium"), JStr("Low")}
                      => b < a
                /\ (tickets[b].urgency = JStr("Unknown") /\ a < b)
                      => FetchPos(tickets[a].email_id) < FetchPos(tickets[b].email_id)
                /\ (tickets[b].urgency = JStr("Unknown") /\ b < a)
                      => FetchPos(tickets[b].email_id) < FetchPos(tickets[a].email_id)

\* A ticket labelled "high", fetched first, is presented after a Low one.
C20_Witness ==
    /\ pc = "edit_prompt" /\ i = 2
    /\ tickets[2].urgency = JStr("high") /\ tickets[2].email_id = email_ids[1]
    /\ tickets[1].urgency = JStr("Low")

====
